---- MODULE Spec2Model ----
(***************************************************************************)
(* The DataLoader of src/domain/value_objects.rs (lines 819-1242): the     *)
(* cache, the metrics, the batch queue with its delay timer, and the       *)
(* batch execution that fans one batch-function result out to every        *)
(* waiting load() call.                                                    *)
(*                                                                         *)
(* Every await of the source is a step boundary.  The code between two     *)
(* awaits of one task is one action; a section that runs with the queue    *)
(* mutex held is one action because no other task can observe it.          *)
(***************************************************************************)
EXTENDS Integers, Sequences, FiniteSets, TLC

\* ---------------------------------------------------------------- bounds
\* load() calls made on a loader that has neither cache nor metrics, where
\* the state is the queue protocol alone, and on any other loader (whose
\* states are multiplied by the cache contents, the clock and the counters).
MaxQueueCalls == 4
MaxCalls == 2
MaxTime == 1
MaxTimers == IF MaxQueueCalls > MaxCalls THEN MaxQueueCalls ELSE MaxCalls

\* The callers of load(): tasks of the integrating program.
Callers == {"c1", "c2"}
\* Timer tasks spawned by load(); one per load() call at most.
TimerSlots == <<"t1", "t2", "t3", "t4", "t5", "t6">>
Timers == {TimerSlots[i] : i \in 1..MaxTimers}
Procs == Callers \cup Timers

\* K, V and E of DataLoader<K, V, E>.
Keys == {1, 2}
Values == {"a", "b"}
\* The integrator's backing store, as the loaders of tests/dataloader_tests.rs
\* have one: each key has its own value.
Store == [k \in Keys |-> IF k = 1 THEN "a" ELSE "b"]
Errors == {"e1", "e2"}

\* ------------------------------------------------------- Option / Result
None == [some |-> FALSE]
Some(x) == [some |-> TRUE, val |-> x]
Ok(v) == [tag |-> "Ok", val |-> v]
Err(e) == [tag |-> "Err", val |-> e]
\* The panic of a load() call or of a batch execution, as an outcome.
Panic == [tag |-> "Panic", val |-> "panic"]
NoResult == [tag |-> "NoResult", val |-> "none"]
\* (), what clear_cache and clear_key return
Unit == [tag |-> "Unit", val |-> "()"]

\* HashMap<K, V>: a function on the keys present.
EmptyMap == [k \in {} |-> "a"]
Maps == {[k \in S |-> Store[k]] : S \in SUBSET Keys}
\* Result<HashMap<K, V>, E>, what BatchLoadFn::load returns.
BatchOk(m) == [tag |-> "Ok", map |-> m, error |-> "none"]
BatchErr(e) == [tag |-> "Err", map |-> EmptyMap, error |-> e]
NoBatchResult == [tag |-> "None", map |-> EmptyMap, error |-> "none"]
BatchResults == {BatchOk(m) : m \in Maps} \cup {BatchErr(e) : e \in Errors}

\* ---------------------------------------------------------------- state
VARIABLES
    config,         \* DataLoaderConfig
    now,            \* Instant::now()
    cache,          \* RwLock<HashMap<K, CacheEntry<V>>>: key -> Option<CacheEntry>
    cacheReaders,   \* callers holding the cache read guard across an await
    metrics,        \* RwLock<DataLoaderMetrics>
    queue,          \* Mutex<BatchQueue>: pending, timer; guard: who holds the lock
    pc,             \* position of every caller and timer task
    key,            \* the key of a caller's load() call
    chan,           \* the oneshot channel of a caller's BatchRequest
    ret,            \* what the caller's last load() call returned
    aborted,        \* timer tasks whose abort() was called while they ran
    owned,          \* the pending list a batch execution owns
    unique_keys,    \* its deduplicated key list
    batch_result,   \* what the batch function returned to it
    invoked,        \* the key lists the batch function received from it
    signals,        \* how often a caller's channel was sent to
    takes,          \* how many flushes took a caller's request
    started,        \* load() and load_many() calls made so far
    keys,           \* the key list of a caller's load_many() call
    results,        \* load_many: its results map
    uncached_keys,  \* load_many: its uncached_keys list
    many_ret        \* what the caller's last load_many() call returned

vars == <<config, now, cache, cacheReaders, metrics, queue, pc, key, chan, ret,
          aborted, owned, unique_keys, batch_result, invoked, signals, takes,
          started, keys, results, uncached_keys, many_ret>>

flushVars == <<owned, unique_keys, batch_result, invoked>>
manyVars == <<keys, results, uncached_keys, many_ret>>
callVars == <<key, chan, ret, signals, takes, started, manyVars>>

\* BatchRequest { key, sender }: the sender is the channel of the caller.
BatchRequest(k, c) == [key |-> k, sender |-> c]

\* oneshot channel states
NoChannel == [st |-> "none", res |-> NoResult]
Open == [st |-> "open", res |-> NoResult]
Sent(r) == [st |-> "sent", res |-> r]
Closed == [st |-> "closed", res |-> NoResult]
\* the receiver was dropped while the sender is still held by a request
ReceiverDropped == [st |-> "dropped", res |-> NoResult]

\* ------------------------------------------------------------ CacheEntry
\* CacheEntry::new: expires_at = ttl.map(|ttl| Instant::now() + ttl)
CacheEntry_new(value, ttl) ==
    [value |-> value,
     expires_at |-> IF ttl.some THEN Some(now + ttl.val) ELSE None]

\* CacheEntry::is_expired at instant t
is_expired_at_or_after(entry, t) ==
    IF entry.expires_at.some THEN t >= entry.expires_at.val ELSE FALSE

is_expired_at(entry, t) ==
    IF entry.expires_at.some THEN t > entry.expires_at.val ELSE FALSE

is_expired(entry) == is_expired_at(entry, now)

\* cache.get(&key) followed by the !entry.is_expired() test
CacheHitInverted(k) == cache[k].some /\ is_expired(cache[k].val)

CacheHit(k) == cache[k].some /\ ~is_expired(cache[k].val)

\* --------------------------------------------------------------- config
\* The configurations a loader is built with.  The TTL is read only when
\* the cache is enabled; expiry is explored with immediate flushes
\* (max_batch_size = 1) and no metrics, it reads nothing of the queue, the
\* timer or the counters.  max_batch_size = 0 is explored on the queue
\* protocol alone.
BatchSizes == {0, 1, 2}
Ttls == {None, Some(0)}
Configs ==
    {cfg \in [max_batch_size : BatchSizes,
              cache_enabled : BOOLEAN,
              cache_ttl_seconds : Ttls,
              enable_metrics : BOOLEAN] :
        /\ ~cfg.cache_enabled => cfg.cache_ttl_seconds = None
        /\ cfg.cache_ttl_seconds.some =>
                cfg.max_batch_size = 1 /\ ~cfg.enable_metrics
        /\ cfg.max_batch_size = 0 =>
                ~cfg.cache_enabled /\ ~cfg.enable_metrics}

\* DataLoaderMetrics::default()
MetricsDefault ==
    [total_requests |-> 0, cache_hits |-> 0, cache_misses |-> 0,
     batches_executed |-> 0, total_keys_loaded |-> 0]

\* DataLoader::with_config: empty cache, BatchQueue::default(), zero metrics.
Init ==
    /\ config \in Configs
    /\ now = 0
    /\ cache = [k \in Keys |-> None]
    /\ cacheReaders = {}
    /\ metrics = MetricsDefault
    /\ queue = [pending |-> <<>>, timer |-> None, guard |-> None]
    /\ pc = [p \in Procs |-> IF p \in Callers THEN "idle" ELSE "off"]
    /\ key = [c \in Callers |-> 1]
    /\ chan = [c \in Callers |-> NoChannel]
    /\ ret = [c \in Callers |-> NoResult]
    /\ aborted = {}
    /\ owned = [p \in Procs |-> <<>>]
    /\ unique_keys = [p \in Procs |-> <<>>]
    /\ batch_result = [p \in Procs |-> NoBatchResult]
    /\ invoked = [p \in Procs |-> <<>>]
    /\ signals = [c \in Callers |-> 0]
    /\ takes = [c \in Callers |-> 0]
    /\ started = 0
    /\ keys = [c \in Callers |-> <<>>]
    /\ results = [c \in Callers |-> EmptyMap]
    /\ uncached_keys = [c \in Callers |-> <<>>]
    /\ many_ret = [c \in Callers |-> NoBatchResult]

\* ------------------------------------------------------------- helpers
\* metrics.<field> += n under `if config.enable_metrics`
BumpAlways(m, field, n) == [m EXCEPT ![field] = @ + n]

Bump(m, field, n) ==
    IF config.enable_metrics THEN [m EXCEPT ![field] = @ + n] ELSE m

KeysOf(pending) == [i \in 1..Len(pending) |-> pending[i].key]
SendersOf(pending) == {pending[i].sender : i \in 1..Len(pending)}
Contains(seq, x) == \E i \in 1..Len(seq) : seq[i] = x

\* The deduplication loop of execute_batch_static: a key is pushed onto
\* unique_keys the first time it is seen.
RECURSIVE DedupLoop(_, _)
DedupLoop(ks, acc) ==
    IF ks = <<>> THEN acc
    ELSE DedupLoop(Tail(ks),
                   IF Contains(acc, Head(ks)) THEN acc ELSE Append(acc, Head(ks)))

DeduplicateNot(pending) == KeysOf(pending)

Deduplicate(pending) == DedupLoop(KeysOf(pending), <<>>)

\* tokio::spawn: the new task takes the lowest free task slot.
FreeTimer ==
    LET i == CHOOSE i \in 1..MaxTimers :
                 /\ pc[TimerSlots[i]] = "off"
                 /\ \A j \in 1..(i - 1) : pc[TimerSlots[j]] # "off"
    IN  TimerSlots[i]

\* JoinHandle::abort on the task in the handle: a task parked at an await is
\* dropped there; a task that is being polled runs on to its next
\* suspension and is dropped then; a finished task is left alone.
AbortedPc(handle, p) ==
    IF handle.some /\ pc[handle.val] = "sleep"
    THEN [p EXCEPT ![handle.val] = "off"]
    ELSE p

AbortedSet(handle) ==
    IF handle.some /\ pc[handle.val] \notin {"sleep", "off"}
    THEN aborted \cup {handle.val}
    ELSE aborted

\* load, line 1050: should_execute
ShouldExecuteNever(len) == FALSE

ShouldExecuteStrict(len) == len > config.max_batch_size

ShouldExecute(len) == len >= config.max_batch_size

\* std::mem::take(&mut queue.pending): what is left in the queue.
MemTakeKeeps(pending) == pending

MemTake(pending) == <<>>

\* load, line 1028: the return on the hit path drops the cache read guard.
ReleaseReadKept(c) == cacheReaders

ReleaseRead(c) == cacheReaders \ {c}

\* DataLoaderMetrics as get_metrics returns it.
Snapshot(m) == [tag |-> "Metrics", val |-> "clone", metrics |-> m]

\* drop(queue), lines 1058, 1075, 1090 and 1092: the task that locked the
\* queue releases the MutexGuard before its next await, so that no guard
\* outlives the step that took it.
DropGuardKept(p) == Some(p)

DropGuard(p) == None

\* cache.insert(key, CacheEntry::new(value, ttl)) for every entry of the
\* batch results
CacheInsertAbsent(batch_results) ==
    [k \in Keys |->
        IF k \in DOMAIN batch_results /\ ~cache[k].some
        THEN Some(CacheEntry_new(batch_results[k], config.cache_ttl_seconds))
        ELSE cache[k]]

CacheInsertAll(batch_results) ==
    [k \in Keys |->
        IF k \in DOMAIN batch_results
        THEN Some(CacheEntry_new(batch_results[k], config.cache_ttl_seconds))
        ELSE cache[k]]

\* The number of load() calls explored for the loader's configuration.
CallBound ==
    IF config.cache_enabled \/ config.enable_metrics
    THEN MaxCalls
    ELSE MaxQueueCalls

\* ------------------------------------------------------------- load()
\* load, lines 1012-1017: count the request.
LoadStart(c, k) ==
    /\ pc[c] = "idle"
    /\ started < CallBound
    /\ started' = started + 1
    /\ key' = [key EXCEPT ![c] = k]
    /\ metrics' = Bump(metrics, "total_requests", 1)
    /\ pc' = [pc EXCEPT ![c] = "check"]
    /\ UNCHANGED <<config, now, cache, cacheReaders, queue, aborted, flushVars,
                   chan, ret, signals, takes, manyVars>>

\* load, lines 1019-1031: the cache lookup.  On a hit with metrics enabled
\* the read guard stays held across metrics.write().await.
LoadCheckCache(c) ==
    /\ pc[c] = "check"
    /\ IF config.cache_enabled /\ CacheHit(key[c])
       THEN IF config.enable_metrics
            THEN /\ cacheReaders' = cacheReaders \cup {c}
                 /\ pc' = [pc EXCEPT ![c] = "hit"]
                 /\ ret' = ret
            ELSE /\ ret' = [ret EXCEPT ![c] = Ok(cache[key[c]].val.value)]
                 /\ pc' = [pc EXCEPT ![c] = "done"]
                 /\ cacheReaders' = cacheReaders
       ELSE /\ pc' = [pc EXCEPT ![c] = "miss"]
            /\ UNCHANGED <<ret, cacheReaders>>
    /\ UNCHANGED <<config, now, cache, metrics, queue, aborted, flushVars,
                   key, chan, signals, takes, started, manyVars>>

\* load, lines 1024-1028: count the hit and return the entry's value.
LoadHitAlsoMiss(c) ==
    /\ pc[c] = "hit"
    /\ metrics' = Bump(Bump(metrics, "cache_hits", 1), "cache_misses", 1)
    /\ ret' = [ret EXCEPT ![c] = Ok(cache[key[c]].val.value)]
    /\ cacheReaders' = ReleaseRead(c)
    /\ pc' = [pc EXCEPT ![c] = "done"]
    /\ UNCHANGED <<config, now, cache, queue, aborted, flushVars,
                   key, chan, signals, takes, started, manyVars>>

LoadHit(c) ==
    /\ pc[c] = "hit"
    /\ metrics' = Bump(metrics, "cache_hits", 1)
    /\ ret' = [ret EXCEPT ![c] = Ok(cache[key[c]].val.value)]
    /\ cacheReaders' = ReleaseRead(c)
    /\ pc' = [pc EXCEPT ![c] = "done"]
    /\ UNCHANGED <<config, now, cache, queue, aborted, flushVars,
                   key, chan, signals, takes, started, manyVars>>

\* load, lines 1033-1037: count the miss.
LoadMissUncounted(c) ==
    /\ pc[c] = "miss"
    /\ pc' = [pc EXCEPT ![c] = "enqueue"]
    /\ UNCHANGED <<config, now, cache, cacheReaders, metrics, queue, aborted,
                   flushVars, callVars>>

LoadMiss(c) ==
    /\ pc[c] = "miss"
    /\ metrics' = Bump(metrics, "cache_misses", 1)
    /\ pc' = [pc EXCEPT ![c] = "enqueue"]
    /\ UNCHANGED <<config, now, cache, cacheReaders, queue, aborted, flushVars,
                   callVars>>

\* load, lines 1039-1093: with the queue mutex held, push the request, then
\* either take the whole list and abort the timer, or spawn the timer task,
\* or ride the timer that is armed.
LoadEnqueue(c) ==
    /\ pc[c] = "enqueue"
    /\ ~queue.guard.some
    /\ LET pending == Append(queue.pending, BatchRequest(key[c], c))
           should_execute == ShouldExecute(Len(pending))
       IN  /\ chan' = [chan EXCEPT ![c] = Open]
           /\ IF should_execute
              THEN /\ owned' = [owned EXCEPT ![c] = pending]
                   /\ takes' = [d \in Callers |->
                                  IF d \in SendersOf(pending)
                                  THEN takes[d] + 1 ELSE takes[d]]
                   /\ queue' = [pending |-> MemTake(pending), timer |-> None,
                                 guard |-> DropGuard(c)]
                   /\ aborted' = AbortedSet(queue.timer)
                   /\ pc' = [AbortedPc(queue.timer, pc) EXCEPT ![c] = "f_start"]
              ELSE IF ~queue.timer.some
              THEN /\ queue' = [pending |-> pending, timer |-> Some(FreeTimer),
                                 guard |-> DropGuard(c)]
                   /\ pc' = [pc EXCEPT ![c] = "wait", ![FreeTimer] = "sleep"]
                   /\ UNCHANGED <<owned, takes, aborted>>
              ELSE /\ queue' = [pending |-> pending, timer |-> queue.timer,
                                 guard |-> DropGuard(c)]
                   /\ pc' = [pc EXCEPT ![c] = "wait"]
                   /\ UNCHANGED <<owned, takes, aborted>>
    /\ UNCHANGED <<config, now, cache, cacheReaders, metrics, unique_keys,
                   batch_result, invoked, key, ret, signals, started, manyVars>>

\* load, lines 1095-1100: receiver.await; a channel whose sender was dropped
\* without a send makes the call panic.
LoadReturn(c) ==
    /\ pc[c] = "wait"
    /\ chan[c].st \in {"sent", "closed"}
    /\ ret' = [ret EXCEPT ![c] = IF chan[c].st = "sent" THEN chan[c].res ELSE Panic]
    /\ chan' = [chan EXCEPT ![c] = NoChannel]
    /\ pc' = [pc EXCEPT ![c] = "done"]
    /\ UNCHANGED <<config, now, cache, cacheReaders, metrics, queue, aborted,
                   flushVars, key, signals, takes, started, manyVars>>

\* The caller has its result and is free to make its next call.
LoadDone(c) ==
    /\ pc[c] = "done"
    /\ pc' = [pc EXCEPT ![c] = "idle"]
    /\ key' = [key EXCEPT ![c] = 1]
    /\ ret' = [ret EXCEPT ![c] = NoResult]
    /\ signals' = [signals EXCEPT ![c] = 0]
    /\ takes' = [takes EXCEPT ![c] = 0]
    /\ keys' = [keys EXCEPT ![c] = <<>>]
    /\ many_ret' = [many_ret EXCEPT ![c] = NoBatchResult]
    /\ invoked' = [invoked EXCEPT ![c] = <<>>]
    /\ batch_result' = [batch_result EXCEPT ![c] = NoBatchResult]
    /\ UNCHANGED <<config, now, cache, cacheReaders, metrics, queue, aborted,
                   owned, unique_keys, chan, started, results, uncached_keys>>

\* --------------------------------------------------------- load_many()
\* The key lists load_many() is called with: the empty list, two keys, and
\* one key twice.
KeyLists == {<<>>, <<1, 2>>, <<2, 2>>}

\* load_many, lines 1111-1124: the keys that hit the cache.
CachedKeys(ks) ==
    IF config.cache_enabled
    THEN {k \in {ks[i] : i \in 1..Len(ks)} : CacheHit(k)}
    ELSE {}

\* results after the loop of lines 1113-1121
CachedResults(ks) == [k \in CachedKeys(ks) |-> cache[k].val.value]

\* uncached_keys after the loop: the other keys, in the order of the call
UncachedKeysAll(ks) == ks

UncachedKeys(ks) ==
    LET cached == CachedKeys(ks)
        Uncached(k) == k \notin cached
    IN  SelectSeq(ks, Uncached)

\* results.extend(batch_results), line 1140
Extend(m, batch_results) ==
    [k \in DOMAIN m \cup DOMAIN batch_results |->
        IF k \in DOMAIN batch_results THEN batch_results[k] ELSE m[k]]

\* load_many, lines 1106-1128: partition the keys under the cache read
\* guard, then return the cached results or call the batch function with
\* the uncached keys.
LoadManyStartCounts(c, ks) ==
    /\ pc[c] = "idle"
    /\ started < MaxCalls
    /\ started' = started + 1
    /\ keys' = [keys EXCEPT ![c] = ks]
    /\ IF UncachedKeys(ks) = <<>>
       THEN /\ many_ret' = [many_ret EXCEPT ![c] = BatchOk(CachedResults(ks))]
            /\ pc' = [pc EXCEPT ![c] = "done"]
            /\ UNCHANGED <<results, uncached_keys, invoked>>
       ELSE /\ results' = [results EXCEPT ![c] = CachedResults(ks)]
            /\ uncached_keys' = [uncached_keys EXCEPT ![c] = UncachedKeys(ks)]
            /\ invoked' = [invoked EXCEPT ![c] = Append(@, UncachedKeys(ks))]
            /\ pc' = [pc EXCEPT ![c] = "m_await"]
            /\ many_ret' = many_ret
    /\ metrics' = Bump(metrics, "total_requests", 1)
    /\ UNCHANGED <<config, now, cache, cacheReaders, queue, aborted,
                   owned, unique_keys, batch_result, key, chan, ret, signals,
                   takes>>

LoadManyStart(c, ks) ==
    /\ pc[c] = "idle"
    /\ started < MaxCalls
    /\ started' = started + 1
    /\ keys' = [keys EXCEPT ![c] = ks]
    /\ IF UncachedKeys(ks) = <<>>
       THEN /\ many_ret' = [many_ret EXCEPT ![c] = BatchOk(CachedResults(ks))]
            /\ pc' = [pc EXCEPT ![c] = "done"]
            /\ UNCHANGED <<results, uncached_keys, invoked>>
       ELSE /\ results' = [results EXCEPT ![c] = CachedResults(ks)]
            /\ uncached_keys' = [uncached_keys EXCEPT ![c] = UncachedKeys(ks)]
            /\ invoked' = [invoked EXCEPT ![c] = Append(@, UncachedKeys(ks))]
            /\ pc' = [pc EXCEPT ![c] = "m_await"]
            /\ many_ret' = many_ret
    /\ UNCHANGED <<config, now, cache, cacheReaders, metrics, queue, aborted,
                   owned, unique_keys, batch_result, key, chan, ret, signals,
                   takes>>

\* load_many, lines 1128 and 1140-1143: what the call returns for the
\* result r of the batch function: `?` passes an error on, an Ok map
\* extends the results.
ManyResultPartial(m, r) ==
    IF r.tag = "Ok" THEN BatchOk(Extend(m, r.map)) ELSE BatchOk(m)

ManyResult(m, r) ==
    IF r.tag = "Ok" THEN BatchOk(Extend(m, r.map)) ELSE r

\* load_many, lines 1128-1143: the batch function returns.  An error leaves
\* through `?`; an Ok map goes to the cache first when the cache is enabled.
LoadManyReturn(c, r) ==
    /\ pc[c] = "m_await"
    /\ batch_result' = [batch_result EXCEPT ![c] = r]
    /\ IF r.tag = "Ok" /\ config.cache_enabled
       THEN /\ pc' = [pc EXCEPT ![c] = "m_cache"]
            /\ UNCHANGED <<results, uncached_keys, many_ret>>
       ELSE /\ many_ret' = [many_ret EXCEPT ![c] = ManyResult(results[c], r)]
            /\ results' = [results EXCEPT ![c] = EmptyMap]
            /\ uncached_keys' = [uncached_keys EXCEPT ![c] = <<>>]
            /\ pc' = [pc EXCEPT ![c] = "done"]
    /\ UNCHANGED <<config, now, cache, cacheReaders, metrics, queue, aborted,
                   owned, unique_keys, invoked, key, chan, ret, signals, takes,
                   started, keys>>

\* load_many, lines 1131-1143: write the returned entries to the cache,
\* extend the results with them and return the map.
LoadManyCacheWrite(c) ==
    /\ pc[c] = "m_cache"
    /\ cacheReaders = {}
    /\ cache' = CacheInsertAll(batch_result[c].map)
    /\ many_ret' = [many_ret EXCEPT ![c] =
                      ManyResult(results[c], batch_result[c])]
    /\ results' = [results EXCEPT ![c] = EmptyMap]
    /\ uncached_keys' = [uncached_keys EXCEPT ![c] = <<>>]
    /\ pc' = [pc EXCEPT ![c] = "done"]
    /\ UNCHANGED <<config, now, cacheReaders, metrics, queue, aborted, owned,
                   unique_keys, batch_result, invoked, key, chan, ret, signals,
                   takes, started, keys>>

\* ------------------------------------------------------ the timer task
\* load, line 1070: the sleep has elapsed and the task is polled again.
TimerWake(t) ==
    /\ pc[t] = "sleep"
    /\ pc' = [pc EXCEPT ![t] = "woken"]
    /\ UNCHANGED <<config, now, cache, cacheReaders, metrics, queue, aborted,
                   flushVars, callVars>>

\* load, lines 1072-1077: with the queue mutex held, take the pending list
\* and clear the handle; an empty list ends the task.
TimerTakeKeepsHandle(t) ==
    /\ pc[t] = "woken"
    /\ ~queue.guard.some
    /\ queue' = [pending |-> MemTake(queue.pending), timer |-> queue.timer,
                 guard |-> DropGuard(t)]
    /\ owned' = [owned EXCEPT ![t] = queue.pending]
    /\ takes' = [d \in Callers |->
                   IF d \in SendersOf(queue.pending) THEN takes[d] + 1 ELSE takes[d]]
    /\ IF queue.pending = <<>>
       THEN /\ pc' = [pc EXCEPT ![t] = "off"]
            /\ aborted' = aborted \ {t}
       ELSE /\ pc' = [pc EXCEPT ![t] = "f_start"]
            /\ aborted' = aborted
    /\ UNCHANGED <<config, now, cache, cacheReaders, metrics, unique_keys,
                   batch_result, invoked, key, chan, ret, signals, started,
                   manyVars>>

TimerTake(t) ==
    /\ pc[t] = "woken"
    /\ ~queue.guard.some
    /\ queue' = [pending |-> MemTake(queue.pending), timer |-> None,
                 guard |-> DropGuard(t)]
    /\ owned' = [owned EXCEPT ![t] = queue.pending]
    /\ takes' = [d \in Callers |->
                   IF d \in SendersOf(queue.pending) THEN takes[d] + 1 ELSE takes[d]]
    /\ IF queue.pending = <<>>
       THEN /\ pc' = [pc EXCEPT ![t] = "off"]
            /\ aborted' = aborted \ {t}
       ELSE /\ pc' = [pc EXCEPT ![t] = "f_start"]
            /\ aborted' = aborted
    /\ UNCHANGED <<config, now, cache, cacheReaders, metrics, unique_keys,
                   batch_result, invoked, key, chan, ret, signals, started,
                   manyVars>>

\* A task whose abort() was called while it was being polled is dropped at
\* its next suspension: at the queue mutex, at metrics.write(), inside the
\* batch function, or at cache.write() while a reader holds the cache.
\* Its pending list is dropped with it, which closes the channels.
Suspended(t) ==
    \/ pc[t] = "woken"
    \/ pc[t] = "f_start" /\ config.enable_metrics
    \/ pc[t] = "f_await"
    \/ pc[t] = "f_cache" /\ cacheReaders # {}

TimerDropped(t) ==
    /\ t \in aborted
    /\ Suspended(t)
    /\ chan' = [d \in Callers |->
                  IF d \notin SendersOf(owned[t]) THEN chan[d]
                  ELSE IF chan[d] = ReceiverDropped THEN NoChannel
                  ELSE Closed]
    /\ owned' = [owned EXCEPT ![t] = <<>>]
    /\ unique_keys' = [unique_keys EXCEPT ![t] = <<>>]
    /\ batch_result' = [batch_result EXCEPT ![t] = NoBatchResult]
    /\ invoked' = [invoked EXCEPT ![t] = <<>>]
    /\ aborted' = aborted \ {t}
    /\ pc' = [pc EXCEPT ![t] = "off"]
    /\ UNCHANGED <<config, now, cache, cacheReaders, metrics, queue,
                   key, ret, signals, takes, started, manyVars>>

\* ------------------------------------------------ execute_batch_static
\* Where a batch execution goes when it is over: the caller that ran it
\* waits on its own receiver; the timer task ends.
AfterFlush(e) == IF e \in Callers THEN "wait" ELSE "off"

\* The metrics update of lines 1205-1210 (average_batch_size, a float
\* derived from the two counters, is left out).
RecordBatchKeysOnly(m, batch_size) ==
    Bump(m, "total_keys_loaded", batch_size)

RecordBatch(m, batch_size) ==
    Bump(Bump(m, "batches_executed", 1), "total_keys_loaded", batch_size)

\* execute_batch_static, lines 1187-1213: deduplicate the keys, record the
\* batch in the metrics and call batch_load_fn.load(unique_keys); the task
\* then waits for the batch function.
FlushStart(e) ==
    /\ pc[e] = "f_start"
    /\ IF owned[e] = <<>>
       THEN /\ pc' = [pc EXCEPT ![e] = AfterFlush(e)]
            /\ UNCHANGED <<unique_keys, metrics, invoked>>
       ELSE /\ unique_keys' = [unique_keys EXCEPT ![e] = Deduplicate(owned[e])]
            /\ metrics' = RecordBatch(metrics, Len(Deduplicate(owned[e])))
            /\ invoked' = [invoked EXCEPT ![e] = Append(@, Deduplicate(owned[e]))]
            /\ pc' = [pc EXCEPT ![e] = "f_await"]
    /\ UNCHANGED <<config, now, cache, cacheReaders, queue, aborted, owned,
                   batch_result, callVars>>

\* execute_batch_static, lines 1214-1216: only an Ok result reaches the
\* cache, and only when the cache is enabled.
WritesCacheAlways(r) == config.cache_enabled

WritesCache(r) == r.tag = "Ok" /\ config.cache_enabled

\* BatchLoadFn::load returns: any map or any error, it is the integrator's.
BatchReturn(e, r) ==
    /\ pc[e] = "f_await"
    /\ batch_result' = [batch_result EXCEPT ![e] = r]
    /\ pc' = [pc EXCEPT ![e] = IF WritesCache(r) THEN "f_cache" ELSE "f_send"]
    /\ UNCHANGED <<config, now, cache, cacheReaders, metrics, queue, aborted,
                   owned, unique_keys, invoked, callVars>>

\* execute_batch_static, lines 1216-1223: write the results to the cache.
FlushCacheWrite(e) ==
    /\ pc[e] = "f_cache"
    /\ cacheReaders = {}
    /\ cache' = CacheInsertAll(batch_result[e].map)
    /\ pc' = [pc EXCEPT ![e] = "f_send"]
    /\ UNCHANGED <<config, now, cacheReaders, metrics, queue, aborted,
                   flushVars, callVars>>

\* The index of the first request whose key the results do not hold, or
\* Len + 1: the loop of lines 1226-1232 panics there.
FirstMissing(pending, batch_results) ==
    IF \E i \in 1..Len(pending) : pending[i].key \notin DOMAIN batch_results
    THEN CHOOSE i \in 1..Len(pending) :
            /\ pending[i].key \notin DOMAIN batch_results
            /\ \A j \in 1..(i - 1) : pending[j].key \in DOMAIN batch_results
    ELSE Len(pending) + 1

\* What the request at index i receives, lines 1225-1239: its own value,
\* or the batch error.
Delivery(pending, result, i) ==
    IF result.tag = "Ok"
    THEN Ok(result.map[pending[i].key])
    ELSE Err(result.error)

\* How many requests the loop sends to before it ends.
SentCountFirstOnly(pending, result) ==
    IF result.tag = "Ok"
    THEN FirstMissing(pending, result.map) - 1
    ELSE 1

SentCount(pending, result) ==
    IF result.tag = "Ok"
    THEN FirstMissing(pending, result.map) - 1
    ELSE Len(pending)

\* execute_batch_static, lines 1225-1239: send to the waiters in list
\* order.  The panic of line 1230 unwinds the execution: the requests not
\* yet sent to are dropped, and a caller running the flush panics itself,
\* which drops its receiver too.  A send to a channel whose receiver is
\* gone fails and `let _ =` ignores it.
FlushSend(e) ==
    /\ pc[e] = "f_send"
    /\ LET pending == owned[e]
           n == SentCount(pending, batch_result[e])
           panicked == n < Len(pending)
           IndexOf(d) == CHOOSE i \in 1..Len(pending) : pending[i].sender = d
       IN  /\ chan' = [d \in Callers |->
                         IF d \notin SendersOf(pending) THEN chan[d]
                         ELSE IF chan[d] = ReceiverDropped THEN NoChannel
                         ELSE IF panicked /\ d = e THEN NoChannel
                         ELSE IF IndexOf(d) <= n
                              THEN Sent(Delivery(pending, batch_result[e], IndexOf(d)))
                              ELSE Closed]
           /\ signals' = [d \in Callers |->
                            IF /\ d \in SendersOf(pending)
                               /\ IndexOf(d) <= n
                               /\ chan[d] # ReceiverDropped
                            THEN signals[d] + 1 ELSE signals[d]]
           /\ IF panicked /\ e \in Callers
              THEN /\ pc' = [pc EXCEPT ![e] = "done"]
                   /\ ret' = [ret EXCEPT ![e] = Panic]
              ELSE /\ pc' = [pc EXCEPT ![e] = AfterFlush(e)]
                   /\ ret' = ret
    /\ owned' = [owned EXCEPT ![e] = <<>>]
    /\ unique_keys' = [unique_keys EXCEPT ![e] = <<>>]
    /\ batch_result' = [batch_result EXCEPT ![e] = NoBatchResult]
    /\ invoked' = [invoked EXCEPT ![e] = <<>>]
    /\ aborted' = aborted \ {e}
    /\ UNCHANGED <<config, now, cache, cacheReaders, metrics, queue,
                   key, takes, started, manyVars>>

\* ---------------------------------------------------------- get_metrics
\* get_metrics, lines 1163-1164: a caller asks for the metrics read lock.
GetMetricsCall(c) ==
    /\ pc[c] = "idle"
    /\ pc' = [pc EXCEPT ![c] = "g_metrics"]
    /\ UNCHANGED <<config, now, cache, cacheReaders, metrics, queue, aborted,
                   flushVars, callVars>>

\* get_metrics, line 1164: with the read lock, clone the metrics.
GetMetrics(c) ==
    /\ pc[c] = "g_metrics"
    /\ ret' = [ret EXCEPT ![c] = Snapshot(metrics)]
    /\ pc' = [pc EXCEPT ![c] = "done"]
    /\ UNCHANGED <<config, now, cache, cacheReaders, metrics, queue, aborted,
                   flushVars, key, chan, signals, takes, started, manyVars>>

\* ------------------------------------------------------ cache clearing
\* clear_cache, lines 1147-1149: a caller asks for the cache write lock.
\* With the cache disabled the call returns at once and changes nothing.
ClearAllCall(c) ==
    /\ pc[c] = "idle"
    /\ config.cache_enabled
    /\ pc' = [pc EXCEPT ![c] = "c_all"]
    /\ UNCHANGED <<config, now, cache, cacheReaders, metrics, queue, aborted,
                   flushVars, callVars>>

\* clear_cache, lines 1149-1151: with the write lock, cache.clear()
ClearAllDropsPending(c) ==
    /\ pc[c] = "c_all"
    /\ cacheReaders = {}
    /\ cache' = [k \in Keys |-> None]
    /\ queue' = [queue EXCEPT !.pending = <<>>]
    /\ ret' = [ret EXCEPT ![c] = Unit]
    /\ pc' = [pc EXCEPT ![c] = "done"]
    /\ UNCHANGED <<config, now, cacheReaders, metrics, aborted,
                   flushVars, key, chan, signals, takes, started, manyVars>>

ClearAll(c) ==
    /\ pc[c] = "c_all"
    /\ cacheReaders = {}
    /\ cache' = [k \in Keys |-> None]
    /\ ret' = [ret EXCEPT ![c] = Unit]
    /\ pc' = [pc EXCEPT ![c] = "done"]
    /\ UNCHANGED <<config, now, cacheReaders, metrics, queue, aborted,
                   flushVars, key, chan, signals, takes, started, manyVars>>

\* clear_key, lines 1155-1157: a caller asks for the cache write lock.
ClearKeyCall(c, k) ==
    /\ pc[c] = "idle"
    /\ config.cache_enabled
    /\ key' = [key EXCEPT ![c] = k]
    /\ pc' = [pc EXCEPT ![c] = "c_key"]
    /\ UNCHANGED <<config, now, cache, cacheReaders, metrics, queue, aborted,
                   flushVars, chan, ret, signals, takes, started, manyVars>>

\* clear_key, lines 1157-1159: with the write lock, cache.remove(key)
ClearKeyClearsAll(c) ==
    /\ pc[c] = "c_key"
    /\ cacheReaders = {}
    /\ cache' = [k \in Keys |-> None]
    /\ ret' = [ret EXCEPT ![c] = Unit]
    /\ pc' = [pc EXCEPT ![c] = "done"]
    /\ UNCHANGED <<config, now, cacheReaders, metrics, queue, aborted,
                   flushVars, key, chan, signals, takes, started, manyVars>>

ClearKey(c) ==
    /\ pc[c] = "c_key"
    /\ cacheReaders = {}
    /\ cache' = [cache EXCEPT ![key[c]] = None]
    /\ ret' = [ret EXCEPT ![c] = Unit]
    /\ pc' = [pc EXCEPT ![c] = "done"]
    /\ UNCHANGED <<config, now, cacheReaders, metrics, queue, aborted,
                   flushVars, key, chan, signals, takes, started, manyVars>>

\* Instant::now() advances; only CacheEntry reads it.
Tick ==
    /\ config.cache_enabled
    /\ config.cache_ttl_seconds.some
    /\ now < MaxTime
    /\ now' = now + 1
    /\ UNCHANGED <<config, cache, cacheReaders, metrics, queue, pc, aborted,
                   flushVars, callVars>>

\* ----------------------------------------------------- abandoned calls
\* The caller of load() drops the future while it is suspended after the
\* enqueue: at receiver.await (line 1096), or inside execute_batch (line
\* 1060) where Suspended says.  The receiver is dropped with the future;
\* a future dropped inside execute_batch drops the pending list it owns,
\* and with it the senders of every request of the batch.
Abandon(c) ==
    /\ pc[c] = "wait" \/ (pc[c] \in {"f_start", "f_await", "f_cache"} /\ Suspended(c))
    /\ chan' = [d \in Callers |->
                  IF d = c
                  THEN IF chan[c] = Open /\ ~(\E i \in 1..Len(owned[c]) : owned[c][i].sender = c)
                       THEN ReceiverDropped
                       ELSE NoChannel
                  ELSE IF d \in SendersOf(owned[c])
                       THEN IF chan[d] = ReceiverDropped THEN NoChannel ELSE Closed
                       ELSE chan[d]]
    /\ owned' = [owned EXCEPT ![c] = <<>>]
    /\ unique_keys' = [unique_keys EXCEPT ![c] = <<>>]
    /\ batch_result' = [batch_result EXCEPT ![c] = NoBatchResult]
    /\ invoked' = [invoked EXCEPT ![c] = <<>>]
    /\ pc' = [pc EXCEPT ![c] = "gone"]
    /\ UNCHANGED <<config, now, cache, cacheReaders, metrics, queue, aborted,
                   key, ret, signals, takes, started, manyVars>>

Next ==
    \/ \E c \in Callers, k \in Keys : LoadStart(c, k)
    \/ \E c \in Callers : LoadCheckCache(c)
    \/ \E c \in Callers : LoadHit(c)
    \/ \E c \in Callers : LoadMiss(c)
    \/ \E c \in Callers : LoadEnqueue(c)
    \/ \E c \in Callers : LoadReturn(c)
    \/ \E c \in Callers : LoadDone(c)
    \/ \E c \in Callers, ks \in KeyLists : LoadManyStart(c, ks)
    \/ \E c \in Callers, r \in BatchResults : LoadManyReturn(c, r)
    \/ \E c \in Callers : LoadManyCacheWrite(c)
    \/ \E t \in Timers : TimerWake(t)
    \/ \E t \in Timers : TimerTake(t)
    \/ \E t \in Timers : TimerDropped(t)
    \/ \E e \in Procs : FlushStart(e)
    \/ \E e \in Procs, r \in BatchResults : BatchReturn(e, r)
    \/ \E e \in Procs : FlushCacheWrite(e)
    \/ \E e \in Procs : FlushSend(e)
    \/ \E c \in Callers : ClearAllCall(c)
    \/ \E c \in Callers : ClearAll(c)
    \/ \E c \in Callers, k \in Keys : ClearKeyCall(c, k)
    \/ \E c \in Callers : ClearKey(c)
    \/ \E c \in Callers : GetMetricsCall(c)
    \/ \E c \in Callers : GetMetrics(c)
    \/ Tick

Spec == Init /\ [][Next]_vars

\* The loader with callers that may abandon their load() calls.
NextAbandon == Next \/ \E c \in Callers : Abandon(c)

SpecAbandon == Init /\ [][NextAbandon]_vars

\* ============================================================== claims
\* The request of caller c is in the pending list / in the list e owns.
InQueue(c) == \E i \in 1..Len(queue.pending) : queue.pending[i].sender = c
Owns(e, c) == \E i \in 1..Len(owned[e]) : owned[e][i].sender = c

\* Caller c has pushed a request that is neither sent to nor dropped.
Unresolved(c) == chan[c].st = "open"

\* e has called the batch function for the list it owns.
Flushing(e) == pc[e] \in {"f_await", "f_cache", "f_send"}

\* C1: every enqueued request is taken by exactly one flush: while it is
\* unresolved it is held by the pending list or by a flush, never by two
\* holders (no two flushes own a common request, and a request a flush
\* owns is no longer pending); no request is taken twice, and a request is
\* resolved or dropped only after a flush took it.
C1_OneFlushOwnsEachRequest ==
    /\ \A c \in Callers :
        /\ takes[c] <= 1
        /\ Unresolved(c) => InQueue(c) \/ \E e \in Procs : Owns(e, c)
        /\ InQueue(c) => takes[c] = 0
        /\ chan[c].st \in {"sent", "closed"} => takes[c] = 1
    /\ \A e \in Procs :
        owned[e] # <<>> =>
            \A i \in 1..Len(owned[e]) :
                LET d == owned[e][i].sender
                IN  /\ takes[d] = 1
                    /\ ~InQueue(d)
                    /\ \A e2 \in Procs \ {e} : ~Owns(e2, d)
                    /\ \A j \in 1..Len(owned[e]) :
                        j # i => owned[e][j].sender # d

\* Two flushes own lists at the same time, and a third request is pending.
C1_Witness ==
    \E e1, e2 \in Procs :
        /\ e1 # e2
        /\ owned[e1] # <<>>
        /\ owned[e2] # <<>>
        /\ Flushing(e1)

\* ks holds every key of pending once, in the order of first occurrence.
FirstIndex(pending, k) ==
    CHOOSE i \in 1..Len(pending) :
        pending[i].key = k /\ \A j \in 1..(i - 1) : pending[j].key # k

IsUniqueKeyList(ks, pending) ==
    /\ {ks[i] : i \in 1..Len(ks)} = {pending[i].key : i \in 1..Len(pending)}
    /\ \A i, j \in 1..Len(ks) : i # j => ks[i] # ks[j]
    /\ \A i, j \in 1..Len(ks) :
        i < j => FirstIndex(pending, ks[i]) < FirstIndex(pending, ks[j])

\* C2: a flush calls the batch function exactly once, and the key list of
\* that call holds each distinct key of the owned requests once, in the
\* order of first occurrence.
C2_OneCallWithUniqueKeys ==
    \A e \in Procs :
        /\ Len(invoked[e]) <= 1
        /\ pc[e] = "f_start" => invoked[e] = <<>>
        /\ Flushing(e) =>
            /\ Len(invoked[e]) = 1
            /\ IsUniqueKeyList(invoked[e][1], owned[e])

\* A flush of two requests for one key has called the batch function with
\* that key once.
C2_Witness ==
    \E e \in Procs :
        /\ Flushing(e)
        /\ Len(owned[e]) = 2
        /\ owned[e][1].key = owned[e][2].key
        /\ invoked[e] = << <<owned[e][1].key>> >>

\* e ends its batch execution in this step by running the send loop.
Sends(e) == pc[e] = "f_send" /\ pc'[e] # "f_send"

\* C3 (as claimed): when the batch function returned Ok(map), every request
\* of the batch whose key is in the map receives Ok(map[key]).
C3_EveryRequestGetsItsValue ==
    [][\A e \in Procs :
        (Sends(e) /\ batch_result[e].tag = "Ok") =>
            \A i \in 1..Len(owned[e]) :
                owned[e][i].key \in DOMAIN batch_result[e].map =>
                    chan'[owned[e][i].sender] =
                        Sent(Ok(batch_result[e].map[owned[e][i].key]))]_vars

\* A load() call that missed the cache is over.
MissedAndOver(c) == pc[c] = "done" /\ takes[c] > 0

\* C4 (as claimed): a load() call that missed the cache ends by returning
\* the one result its channel was signaled with: one signal, no panic.
C4_EveryMissIsSignaledOnce ==
    \A c \in Callers :
        MissedAndOver(c) => signals[c] = 1 /\ ret[c].tag \in {"Ok", "Err"}

\* C5: when the batch function returned an error, the send loop signals
\* every request of the batch with that error, exactly once, and with no
\* value.
C5_ErrorGoesToEveryRequest ==
    [][\A e \in Procs :
        (Sends(e) /\ batch_result[e].tag = "Err") =>
            \A d \in SendersOf(owned[e]) :
                /\ chan'[d] = Sent(Err(batch_result[e].error))
                /\ signals'[d] = signals[d] + 1]_vars

\* Two callers hold the same batch error.
C5_Witness ==
    \E c, d \in Callers :
        /\ c # d
        /\ chan[c].st = "sent"
        /\ chan[c].res.tag = "Err"
        /\ chan[d] = chan[c]

\* C6 (as claimed): when the batch function returned Ok(map) without a
\* requested key, the flush does not abort: the requests for that key are
\* signaled with an error, and the other requests with their values.
C6_MissingKeyIsAnError ==
    [][\A e \in Procs :
        (Sends(e) /\ batch_result[e].tag = "Ok") =>
            /\ pc'[e] = AfterFlush(e)
            /\ \A i \in 1..Len(owned[e]) :
                LET d == owned[e][i].sender
                    k == owned[e][i].key
                IN  IF k \in DOMAIN batch_result[e].map
                    THEN chan'[d].st = "sent" /\ chan'[d].res.tag = "Ok"
                    ELSE chan'[d].st = "sent" /\ chan'[d].res.tag = "Err"]_vars

\* Caller c leaves position p in this step.
Leaves(c, p) == pc[c] = p /\ pc'[c] # p

\* The request of c is in the pending list or in the list c took itself.
Enqueued(c, q, o) ==
    \/ c \in SendersOf(q.pending)
    \/ c \in SendersOf(o[c])

\* C7: a failed flush writes nothing to the cache: the error result skips
\* the cache write and the send loop leaves the cache as it is.  A load()
\* for a key that is absent from the cache then misses, pushes a new
\* request, and the flush that owns the request passes its key to the
\* batch function.
C7_FailedFlushLeavesCacheAlone ==
    [][/\ \A e \in Procs :
            /\ (pc[e] = "f_await" /\ batch_result'[e].tag = "Err") =>
                    pc'[e] = "f_send" /\ cache' = cache
            /\ (Sends(e) /\ batch_result[e].tag = "Err") => cache' = cache
       /\ \A c \in Callers :
            /\ (Leaves(c, "check") /\ ~cache[key[c]].some) => pc'[c] = "miss"
            /\ Leaves(c, "miss") => pc'[c] = "enqueue"
            /\ Leaves(c, "enqueue") =>
                    Enqueued(c, queue', owned') /\ chan'[c] = Open
       /\ \A e \in Procs :
            Flushing(e)' =>
                \A i \in 1..Len(owned'[e]) :
                    Contains(invoked'[e][1], owned'[e][i].key)]_vars

\* A load() got the batch error, its key is absent from the cache, and
\* another load() for that key has missed the cache and is in a new flush.
C7_Witness ==
    \E c, d \in Callers :
        /\ c # d
        /\ pc[c] = "done"
        /\ ret[c].tag = "Err"
        /\ config.cache_enabled
        /\ ~cache[key[c]].some
        /\ key[d] = key[c]
        /\ pc[d] = "f_await"
        /\ invoked[d] = << <<key[d]>> >>
        /\ metrics.batches_executed = 2

\* The entry of key k is in the cache and its expiry instant, if it has
\* one, is not in the past.
Live(k) ==
    /\ cache[k].some
    /\ cache[k].val.expires_at.some => now <= cache[k].val.expires_at.val

\* C8: with the cache enabled, a load(k) that finds the entry of k present
\* and unexpired returns the value of the entry; it pushes no request, no
\* batch function call is made and batches_executed stays as it is.
C8_CachedLoadSkipsTheBatch ==
    [][\A c \in Callers :
        /\ (Leaves(c, "check") /\ config.cache_enabled /\ Live(key[c])) =>
                /\ pc'[c] \in {"hit", "done"}
                /\ pc'[c] = "done" => ret'[c] = Ok(cache[key[c]].val.value)
                /\ queue' = queue
                /\ invoked' = invoked
                /\ metrics'.batches_executed = metrics.batches_executed
        /\ Leaves(c, "hit") =>
                /\ pc'[c] = "done"
                /\ cache[key[c]].some
                /\ ret'[c] = Ok(cache[key[c]].val.value)
                /\ queue' = queue
                /\ invoked' = invoked
                /\ metrics'.batches_executed = metrics.batches_executed]_vars

\* A load(k) returned Ok from its flush, and a later load(k) has returned
\* the same value from the cache with one batch executed in all.
C8_Witness ==
    \E c, d \in Callers :
        /\ c # d
        /\ pc[c] = "done" /\ takes[c] = 1 /\ ret[c].tag = "Ok"
        /\ pc[d] = "done" /\ takes[d] = 0 /\ ret[d] = ret[c]
        /\ key[d] = key[c]
        /\ metrics.batches_executed = 1
        /\ metrics.cache_hits = 1

C10_SizeTriggerFlushesAtN ==
    [][\A c \in Callers :
        (Leaves(c, "enqueue") /\ config.max_batch_size >= 1) =>
            LET pending == Append(queue.pending, BatchRequest(key[c], c))
            IN  /\ Len(queue.pending) < config.max_batch_size
                /\ IF Len(pending) = config.max_batch_size
                   THEN /\ pc'[c] = "f_start"
                        /\ owned'[c] = pending
                        /\ queue'.pending = <<>>
                        /\ ~queue'.timer.some
                        /\ queue.timer.some =>
                            \/ pc[queue.timer.val] = "sleep"
                                /\ pc'[queue.timer.val] = "off"
                            \/ queue.timer.val \in aborted'
                   ELSE /\ pc'[c] = "wait"
                        /\ queue'.pending = pending
                        /\ owned' = owned]_vars

\* The second of two requests has taken both as one batch and the timer
\* the first had armed is gone.
C10_Witness ==
    \E c \in Callers :
        /\ config.max_batch_size = 2
        /\ pc[c] = "f_start"
        /\ Len(owned[c]) = 2
        /\ queue.pending = <<>>
        /\ \A t \in Timers : pc[t] = "off"
        /\ started = 2

\* The pending list loses requests in this step and no caller's enqueue
\* took them: a timer task took the list.
TimerTookList ==
    /\ queue.pending # <<>>
    /\ queue'.pending = <<>>
    /\ \A c \in Callers : ~Leaves(c, "enqueue")

\* C11 (as claimed): a request pushed below max_batch_size while a timer is
\* armed rides that timer: the handle and the timer stay as they are.  The
\* list is then taken by the timer of the handle, whole, as one batch, and
\* that timer task calls the batch function once with the keys of the
\* batch: no other task takes the riders and they are not dropped.
C11_RidersFlushWithTheirTimer ==
    [][/\ \A c \in Callers :
            (/\ Leaves(c, "enqueue")
             /\ queue.timer.some
             /\ Len(queue.pending) + 1 < config.max_batch_size) =>
                /\ queue'.timer = queue.timer
                /\ queue'.pending =
                       Append(queue.pending, BatchRequest(key[c], c))
                /\ pc'[queue.timer.val] = pc[queue.timer.val]
       /\ (TimerTookList /\ queue.timer.some) =>
            /\ owned'[queue.timer.val] = queue.pending
            /\ pc'[queue.timer.val] = "f_start"
       /\ \A t \in Timers :
            (Leaves(t, "f_start") /\ owned[t] # <<>>) =>
                /\ pc'[t] = "f_await"
                /\ owned'[t] = owned[t]
                /\ invoked'[t] = <<Deduplicate(owned[t])>>
       /\ \A t \in Timers :
            Leaves(t, "f_await") => pc'[t] \in {"f_cache", "f_send"}]_vars

\* C12: clear_key(k) removes the entry of k and leaves every other entry as
\* it is; clear_cache removes every entry.  A load(k) that finds no entry
\* of k misses, is counted as a miss and pushes a request, and the flush
\* that owns the request counts one more batch and passes k to the batch
\* function.
C12_ClearedKeysAreLoadedAgain ==
    [][/\ \A c \in Callers :
            /\ Leaves(c, "c_key") =>
                    /\ ~cache'[key[c]].some
                    /\ \A j \in Keys \ {key[c]} : cache'[j] = cache[j]
            /\ Leaves(c, "c_all") => \A j \in Keys : ~cache'[j].some
            /\ (Leaves(c, "check") /\ ~cache[key[c]].some) => pc'[c] = "miss"
            /\ Leaves(c, "miss") =>
                    /\ pc'[c] = "enqueue"
                    /\ config.enable_metrics =>
                        metrics'.cache_misses = metrics.cache_misses + 1
            /\ Leaves(c, "enqueue") =>
                    Enqueued(c, queue', owned') /\ chan'[c] = Open
       /\ \A e \in Procs :
            (pc[e] = "f_start" /\ pc'[e] = "f_await") =>
                /\ config.enable_metrics =>
                    metrics'.batches_executed = metrics.batches_executed + 1
                /\ Len(invoked'[e]) = Len(invoked[e]) + 1
                /\ \A i \in 1..Len(owned[e]) :
                    Contains(invoked'[e][1], owned[e][i].key)]_vars

\* A load(k) got its value from a flush, which wrote the entry of k; the
\* entry was then cleared, and a second load(k) has missed and is in a
\* second flush that passed k to the batch function.
C12_Witness ==
    \E c, d \in Callers :
        /\ c # d
        /\ pc[c] = "done" /\ takes[c] = 1 /\ ret[c].tag = "Ok"
        /\ config.cache_enabled
        /\ ~cache[key[c]].some
        /\ key[d] = key[c]
        /\ pc[d] = "f_await"
        /\ invoked[d] = << <<key[d]>> >>
        /\ metrics.cache_misses = 2
        /\ metrics.batches_executed = 2

\* Caller c runs a step of clear_cache or clear_key.
ClearStep(c) ==
    \/ pc[c] = "idle" /\ pc'[c] \in {"c_key", "c_all"}
    \/ Leaves(c, "c_key")
    \/ Leaves(c, "c_all")

\* C13: a step of clear_key or clear_cache changes nothing but the cache
\* (and the position and return value of its caller): the pending list and
\* the timer handle, the timer tasks, the lists the flushes own with their
\* keys and results, every channel and the metrics are as before, so what
\* the enqueued and in-flight requests receive does not depend on it.
C13_ClearTouchesOnlyTheCache ==
    [][\A c \in Callers :
        ClearStep(c) =>
            /\ queue' = queue
            /\ owned' = owned
            /\ unique_keys' = unique_keys
            /\ batch_result' = batch_result
            /\ invoked' = invoked
            /\ chan' = chan
            /\ signals' = signals
            /\ takes' = takes
            /\ aborted' = aborted
            /\ metrics' = metrics
            /\ \A p \in Procs \ {c} : pc'[p] = pc[p]
            /\ \A d \in Callers \ {c} : ret'[d] = ret[d]]_vars

\* After one flush, clear_cache or clear_key has returned while the request
\* of a second load() rides the timer; the cache is empty.
C13_Witness ==
    \E c, d \in Callers :
        /\ pc[c] = "done" /\ ret[c] = Unit
        /\ pc[d] = "wait" /\ chan[d] = Open
        /\ queue.pending = <<BatchRequest(key[d], d)>>
        /\ queue.timer.some
        /\ metrics.batches_executed = 1
        /\ \A k \in Keys : ~cache[k].some

\* Caller c calls load_many in this step.
ManyStarts(c) == pc[c] = "idle" /\ pc'[c] \in {"m_await", "done"}

\* Caller c returns from load_many in this step.
ManyReturns(c) == pc[c] \in {"m_await", "m_cache"} /\ pc'[c] = "done"

Elements(ks) == {ks[i] : i \in 1..Len(ks)}

\* The requested keys whose entry is present and unexpired.
LiveKeys(ks) == {k \in Elements(ks) : config.cache_enabled /\ Live(k)}

\* C14: load_many(keys) takes the unexpired cached entries of the
\* requested keys; when every key is cached it returns them without a call
\* of the batch function; otherwise it calls the batch function once, with
\* the uncached keys only, and on Ok returns exactly the cached entries
\* together with the entries the batch function returned, after it has
\* written those to the cache (when the cache is enabled).
C14_LoadManyMergesCacheAndBatch ==
    [][\A c \in Callers :
        /\ ManyStarts(c) =>
            LET ks == keys'[c]
                cached == [k \in LiveKeys(ks) |-> cache[k].val.value]
            IN  IF Elements(ks) = LiveKeys(ks)
                THEN /\ pc'[c] = "done"
                     /\ many_ret'[c] = BatchOk(cached)
                     /\ invoked'[c] = <<>>
                ELSE /\ pc'[c] = "m_await"
                     /\ results'[c] = cached
                     /\ Len(invoked'[c]) = 1
                     /\ Elements(invoked'[c][1]) = Elements(ks) \ LiveKeys(ks)
        /\ pc[c] \in {"m_await", "m_cache"} => invoked'[c] = invoked[c]
        /\ Leaves(c, "m_cache") =>
            \A k \in DOMAIN batch_result[c].map :
                /\ cache'[k].some
                /\ cache'[k].val.value = batch_result[c].map[k]
        /\ (ManyReturns(c) /\ many_ret'[c].tag = "Ok") =>
            LET returned == batch_result'[c].map
                out == many_ret'[c].map
            IN  /\ batch_result'[c].tag = "Ok"
                /\ config.cache_enabled => pc[c] = "m_cache"
                /\ DOMAIN out = DOMAIN results[c] \cup DOMAIN returned
                /\ \A k \in DOMAIN out :
                    out[k] = IF k \in DOMAIN returned
                             THEN returned[k] ELSE results[c][k]]_vars

\* load_many([1, 2]) found key 1 in the cache, called the batch function
\* with key 2 alone, and returned both entries; key 2 is cached now.
C14_Witness ==
    \E c \in Callers :
        /\ pc[c] = "done"
        /\ keys[c] = <<1, 2>>
        /\ invoked[c] = << <<2>> >>
        /\ many_ret[c] = BatchOk(Store)
        /\ cache[2].some

\* C15: when the batch function fails during load_many, the call returns
\* that error and no map, whatever it had found in the cache, and the cache
\* is as it was; load_many returns an error in no other case.
C15_LoadManyFailsWhole ==
    [][\A c \in Callers :
        /\ (Leaves(c, "m_await") /\ batch_result'[c].tag = "Err") =>
            /\ pc'[c] = "done"
            /\ many_ret'[c].tag = "Err"
            /\ many_ret'[c].error = batch_result'[c].error
            /\ many_ret'[c].map = EmptyMap
            /\ cache' = cache
        /\ (ManyReturns(c) /\ many_ret'[c].tag = "Err") =>
            batch_result'[c].tag = "Err"]_vars

\* load_many([1, 2]) found key 1 in the cache, the batch function failed
\* for key 2, and the call returned the error; the cache holds key 1 only.
C15_Witness ==
    \E c \in Callers :
        /\ pc[c] = "done"
        /\ keys[c] = <<1, 2>>
        /\ invoked[c] = << <<2>> >>
        /\ many_ret[c].tag = "Err"
        /\ cache[1].some
        /\ ~cache[2].some

\* The load() calls that have counted the request and not yet the hit or
\* the miss.
BetweenIncrements == {c \in Callers : pc[c] \in {"check", "hit", "miss"}}

\* C16: with metrics enabled, every load() call adds one to total_requests
\* and then one to exactly one of cache_hits and cache_misses: in every
\* state total_requests is cache_hits + cache_misses plus the number of
\* calls between their two increments, so cache_hits + cache_misses <=
\* total_requests, with equality when no call is between.
C16_HitsPlusMissesIsRequests ==
    config.enable_metrics =>
        /\ metrics.total_requests =
              metrics.cache_hits + metrics.cache_misses
                  + Cardinality(BetweenIncrements)
        /\ metrics.cache_hits + metrics.cache_misses <= metrics.total_requests
        /\ BetweenIncrements = {} =>
              metrics.cache_hits + metrics.cache_misses = metrics.total_requests

\* load(k) twice: one miss with one batch, then one hit.
C16_Witness ==
    /\ metrics.total_requests = 2
    /\ metrics.cache_hits = 1
    /\ metrics.cache_misses = 1
    /\ metrics.batches_executed = 1
    /\ BetweenIncrements = {}

\* C17: with enable_metrics = false every counter of the metrics stays
\* zero, whatever load, load_many, the clear operations and the flushes do.
C17_DisabledMetricsStayZero ==
    ~config.enable_metrics =>
        /\ metrics.total_requests = 0
        /\ metrics.cache_hits = 0
        /\ metrics.cache_misses = 0
        /\ metrics.batches_executed = 0
        /\ metrics.total_keys_loaded = 0

\* With metrics disabled, a load() has its value from a flush and a
\* load_many() has its map from the batch function; no counter has moved.
C17_Witness ==
    \E c, d \in Callers :
        /\ ~config.enable_metrics
        /\ pc[c] = "done" /\ takes[c] = 1 /\ ret[c].tag = "Ok"
        /\ pc[d] = "done" /\ many_ret[d].tag = "Ok" /\ Len(invoked[d]) = 1
        /\ metrics = MetricsDefault

\* C18 (as claimed): no loader is built with max_batch_size = 0, so no
\* loader with max_batch_size = 0 ever accepts a load() call.
C18_ZeroBatchSizeIsRejected ==
    config.max_batch_size = 0 =>
        /\ started = 0
        /\ \A c \in Callers : pc[c] = "idle"

\* Timer task t has been started, has not taken the pending list, and
\* abort() has not been called on it.
Armed(t) == pc[t] \in {"sleep", "woken"} /\ t \notin aborted

\* C19 (as claimed): in every state at most one timer task is armed.
C19_AtMostOneArmedTimer ==
    \A t1, t2 \in Timers : (Armed(t1) /\ Armed(t2)) => t1 = t2

\* Caller c abandons its load() call in this step.
Abandons(c) == pc[c] # "gone" /\ pc'[c] = "gone"

\* C20 (as claimed): when a caller abandons its load() call after the
\* enqueue, its request keeps its slot and the flush of its batch goes on:
\* the pending list is as before, every list a flush owns is still owned,
\* and the channel of every other request stays as it is, to be signaled
\* by the flush.
C20_AbandonedCallKeepsItsBatch ==
    [][\A c \in Callers :
        Abandons(c) =>
            /\ queue' = queue
            /\ \A e \in Procs : Len(owned[e]) >= 2 => owned'[e] = owned[e]
            /\ \A d \in Callers \ {c} : chan'[d] = chan[d]]_vars

\* Caller c runs a step of load_many.
ManyStep(c) ==
    \/ ManyStarts(c)
    \/ pc[c] \in {"m_await", "m_cache"} /\ pc'[c] # pc[c]

\* C21: a step of load_many leaves the pending list, the timer handle, the
\* timer tasks, the lists the flushes own, every channel and the metrics as
\* they are; its call of the batch function holds every requested key that
\* is not live in the cache, also a key that a queued load() waits for, so
\* that key is fetched once more by the flush of the queued request.
C21_LoadManyBypassesTheQueue ==
    [][\A c \in Callers :
        ManyStep(c) =>
            /\ queue' = queue
            /\ metrics' = metrics
            /\ owned' = owned
            /\ unique_keys' = unique_keys
            /\ chan' = chan
            /\ signals' = signals
            /\ takes' = takes
            /\ aborted' = aborted
            /\ \A p \in Procs \ {c} : pc'[p] = pc[p] /\ invoked'[p] = invoked[p]
            /\ ManyStarts(c) =>
                \A k \in Elements(keys'[c]) \ LiveKeys(keys'[c]) :
                    /\ pc'[c] = "m_await"
                    /\ Contains(invoked'[c][1], k)]_vars

\* A load(2) is queued behind the timer; load_many has called the batch
\* function with key 2, and the request is still in the pending list.
C21_Witness ==
    \E c, d \in Callers :
        /\ c # d
        /\ pc[c] = "m_await"
        /\ Contains(invoked[c][1], 2)
        /\ pc[d] = "wait" /\ chan[d] = Open
        /\ queue.pending = <<BatchRequest(2, d)>>
        /\ config.enable_metrics
        /\ metrics.total_requests = 1

\* The flush of e records its batch and calls the batch function.
FlushCalls(e) == pc[e] = "f_start" /\ pc'[e] = "f_await"

\* The keys of a list of requests, as a set.
KeySet(pending) == {pending[i].key : i \in 1..Len(pending)}

\* C22: with metrics enabled, the step of a flush that calls the batch
\* function has already added one to batches_executed and the number of
\* distinct keys of its batch to total_keys_loaded; nothing else changes
\* the two counters, so the return of the batch function, Ok or Err,
\* leaves the flush counted.
C22_FlushIsCountedBeforeTheCall ==
    [][config.enable_metrics =>
        /\ \A e \in Procs :
            FlushCalls(e) =>
                /\ metrics'.batches_executed = metrics.batches_executed + 1
                /\ metrics'.total_keys_loaded =
                       metrics.total_keys_loaded + Cardinality(KeySet(owned[e]))
                /\ Len(invoked'[e]) = Len(invoked[e]) + 1
        /\ (\A e \in Procs : ~FlushCalls(e)) =>
                /\ metrics'.batches_executed = metrics.batches_executed
                /\ metrics'.total_keys_loaded = metrics.total_keys_loaded]_vars

\* A flush of two requests for one key whose batch function failed: one
\* batch and one key are counted.
C22_Witness ==
    \E e \in Procs :
        /\ pc[e] = "f_send"
        /\ batch_result[e].tag = "Err"
        /\ Len(owned[e]) = 2
        /\ Cardinality(KeySet(owned[e])) = 1
        /\ config.enable_metrics
        /\ metrics.batches_executed = 1
        /\ metrics.total_keys_loaded = 1

\* Caller c receives Ok from its channel.
ReceivesOk(c) ==
    /\ pc[c] = "wait"
    /\ pc'[c] = "done"
    /\ ret'[c].tag = "Ok"

\* C23 (as claimed): with the cache enabled, when a load(k) receives Ok(v)
\* from a flush the cache holds an entry of k.
C23_ReceivedKeyIsCached ==
    [][\A c \in Callers :
        (ReceivesOk(c) /\ config.cache_enabled) => cache[key[c]].some]_vars

\* C23 (amended): with the cache enabled, a flush whose batch function
\* returned Ok(map) writes every key of the map to the cache, with the
\* returned value and a fresh expiry in place of any older entry, in a step
\* that signals nobody, and signals its requests only in a later step; an
\* entry is removed from the cache only by a step of clear_key or
\* clear_cache.
C23_CacheIsWrittenBeforeTheSignal ==
    [][/\ \A e \in Procs :
            /\ (pc[e] = "f_await" /\ pc'[e] \in {"f_cache", "f_send"}
                    /\ config.cache_enabled /\ batch_result'[e].tag = "Ok") =>
                    pc'[e] = "f_cache" /\ chan' = chan
            /\ (pc[e] = "f_cache" /\ pc'[e] = "f_send") =>
                    /\ chan' = chan
                    /\ signals' = signals
                    /\ batch_result'[e] = batch_result[e]
                    /\ \A k \in DOMAIN batch_result[e].map :
                        cache'[k] = Some(CacheEntry_new(batch_result[e].map[k],
                                                        config.cache_ttl_seconds))
            /\ (config.cache_enabled /\ batch_result[e].tag = "Ok"
                    /\ \E d \in SendersOf(owned[e]) : signals'[d] # signals[d]) =>
                    pc[e] = "f_send"
       /\ \A k \in Keys :
            (cache[k].some /\ ~cache'[k].some) =>
                \E c \in Callers :
                    \/ Leaves(c, "c_all")
                    \/ Leaves(c, "c_key") /\ key[c] = k]_vars

\* A flush has written its Ok results to the cache and is about to signal
\* a request that still waits.
C23_Witness ==
    \E e \in Procs, d \in Callers :
        /\ pc[e] = "f_send"
        /\ config.cache_enabled
        /\ batch_result[e].tag = "Ok"
        /\ d \in SendersOf(owned[e])
        /\ chan[d] = Open
        /\ key[d] \in DOMAIN batch_result[e].map
        /\ cache[key[d]] = Some(CacheEntry_new(batch_result[e].map[key[d]],
                                               config.cache_ttl_seconds))

\* e runs a batch execution, from the take of its list to the last send.
InFlush(e) == pc[e] \in {"f_start", "f_await", "f_cache", "f_send"}

\* C24: no batch execution holds the queue lock: while a flush is between
\* the take of its list and its last send, the lock is free, every caller
\* about to enqueue can push its request (and flush, or arm a timer) and
\* every woken timer can take the list, whatever the batch function of the
\* first flush does.
C24_QueueIsFreeDuringTheBatchCall ==
    (\E e \in Procs : InFlush(e)) =>
        /\ ~queue.guard.some
        /\ \A c \in Callers : pc[c] = "enqueue" => ENABLED LoadEnqueue(c)
        /\ \A t \in Timers : pc[t] = "woken" => ENABLED TimerTake(t)

\* The flush of one timer still awaits its batch function while the flush
\* of a later timer, armed by a load() made during that call, has its
\* result and is about to signal.
C24_Witness ==
    \E t, u \in Timers :
        /\ t # u
        /\ pc[t] = "f_await"
        /\ pc[u] = "f_send"
        /\ owned[t] # <<>>
        /\ owned[u] # <<>>
        /\ aborted = {}

\* C25 (as claimed): the key list load_many passes to the batch function
\* holds no key twice.
C25_LoadManyAsksForEachKeyOnce ==
    \A c \in Callers :
        pc[c] = "m_await" =>
            \A i, j \in 1..Len(invoked[c][1]) :
                i # j => invoked[c][1][i] # invoked[c][1][j]

\* C26: a non-empty pending list has a timer: the handle of the queue is
\* set, and the task of the handle is armed: it has been spawned, has not
\* yet taken the list and has not been aborted.
C26_PendingListHasATimer ==
    queue.pending # <<>> =>
        /\ queue.timer.some
        /\ Armed(queue.timer.val)

\* A request waits in the pending list for the timer of the handle while
\* an earlier timer task, aborted after its sleep had elapsed, is about to
\* lock the queue.
C26_Witness ==
    \E t \in Timers :
        /\ t \in aborted
        /\ pc[t] = "woken"
        /\ queue.pending # <<>>
        /\ queue.timer.some
        /\ queue.timer.val # t
        /\ pc[queue.timer.val] = "sleep"

\* C27: with max_batch_size >= 1, the pending list holds fewer than
\* max_batch_size requests in every state, and the list of every batch
\* execution holds at least one and at most max_batch_size requests.
C27_BatchesAreWithinTheirSize ==
    config.max_batch_size >= 1 =>
        /\ Len(queue.pending) < config.max_batch_size
        /\ \A e \in Procs :
            InFlush(e) =>
                /\ 1 <= Len(owned[e])
                /\ Len(owned[e]) <= config.max_batch_size

\* The pending list is one below max_batch_size while a timer's flush of a
\* batch below max_batch_size is under way.
C27_Witness ==
    \E t \in Timers :
        /\ config.max_batch_size = 2
        /\ pc[t] = "f_await"
        /\ Len(owned[t]) = 1
        /\ Len(queue.pending) = 1
        /\ started = 2

\* C28: with metrics enabled, in every state
\* batches_executed <= total_keys_loaded <= cache_misses <= total_requests.
C28_CountersAreOrdered ==
    config.enable_metrics =>
        /\ metrics.batches_executed <= metrics.total_keys_loaded
        /\ metrics.total_keys_loaded <= metrics.cache_misses
        /\ metrics.cache_misses <= metrics.total_requests

\* Two loads of one key, both counted as requests and as misses, are
\* flushed as one batch of one key.
C28_Witness ==
    /\ config.enable_metrics
    /\ metrics.batches_executed = 1
    /\ metrics.total_keys_loaded = 1
    /\ metrics.cache_misses = 2
    /\ metrics.total_requests = 2
    /\ \E e \in Procs : pc[e] = "f_await" /\ Len(owned[e]) = 2

\* Task p is about to acquire the cache write lock.
WantsCacheWrite(p) == pc[p] \in {"f_cache", "m_cache", "c_key", "c_all"}

\* C29: no task waits for a lock in a cycle.  The queue lock is held by no
\* task that is at an await, so a flush holds it neither at the metrics
\* lock nor at the cache lock; the only lock held across an await is the
\* cache read guard of a load() on its hit path, whose holder waits for the
\* metrics write lock alone and can always take it; the tasks that want the
\* cache write lock can take it as soon as no reader is left, and every
\* other acquisition (of the queue lock by load() and by a timer task, of
\* the metrics lock by load(), by a flush and by get_metrics, of the cache
\* read lock) can be made at once.
C29_LocksNeverDeadlock ==
    /\ ~queue.guard.some
    /\ \A c \in cacheReaders : pc[c] = "hit" /\ ENABLED LoadHit(c)
    /\ cacheReaders = {} =>
        /\ \A e \in Procs : pc[e] = "f_cache" => ENABLED FlushCacheWrite(e)
        /\ \A c \in Callers :
            /\ pc[c] = "m_cache" => ENABLED LoadManyCacheWrite(c)
            /\ pc[c] = "c_key" => ENABLED ClearKey(c)
            /\ pc[c] = "c_all" => ENABLED ClearAll(c)
    /\ \A c \in Callers :
        /\ pc[c] = "check" => ENABLED LoadCheckCache(c)
        /\ pc[c] = "miss" => ENABLED LoadMiss(c)
        /\ pc[c] = "enqueue" => ENABLED LoadEnqueue(c)
        /\ pc[c] = "g_metrics" => ENABLED GetMetrics(c)
    /\ \A t \in Timers : pc[t] = "woken" => ENABLED TimerTake(t)
    /\ \A e \in Procs : pc[e] = "f_start" => ENABLED FlushStart(e)

\* A load() holds the cache read guard on its hit path and waits for the
\* metrics lock, while the other caller waits for the cache write lock.
C29_Witness ==
    \E c, d \in Callers :
        /\ c # d
        /\ cacheReaders = {c}
        /\ pc[c] = "hit"
        /\ WantsCacheWrite(d)

\* C30 (as claimed): a timer task that has taken a batch is never
\* cancelled: its batch execution ends only with the sends of its loop, so
\* the requests it owns are resolved.
C30_TimerWithABatchIsNeverCancelled ==
    [][\A t \in Timers :
        (InFlush(t) /\ ~InFlush(t)') => Sends(t)]_vars

====
